---- MODULE Spec2Model ----
(***************************************************************************)
(* Model of the transcription route handler (POST) of SonicSeeker and of   *)
(* its helper findPythonExecutable.                                        *)
(*                                                                         *)
(* Text (file names, paths, the shell command, log lines, response         *)
(* details) is a sequence of lexical atoms: "." "/" "-" " " and the double *)
(* quote are atoms of their own, every other atom is a run of ordinary     *)
(* characters.  The handler is cut into steps at its awaits; the engine,   *)
(* the runtime probes, the clock and the file system are the environment.  *)
(***************************************************************************)
EXTENDS Naturals, Sequences, FiniteSets, TLC

\* ------------------------------------------------------------------ bounds
\* Largest value Date.now() takes in the model (the clock starts at 1).
MaxNow == 2

\* ------------------------------------------------------------------- text
Null == <<"<null>">>

DQ == "\""

RECURSIVE IndexFrom(_, _, _)
\* String.prototype.indexOf: the least i >= from with s[i..] starting with t, 0 if none.
IndexFrom(s, t, from) ==
    IF from + Len(t) - 1 > Len(s) THEN 0
    ELSE IF SubSeq(s, from, from + Len(t) - 1) = t THEN from
    ELSE IndexFrom(s, t, from + 1)

\* String.prototype.includes, for a non-empty needle.
Includes(s, t) == Len(t) > 0 /\ IndexFrom(s, t, 1) > 0

\* String.prototype.replace(pattern: string, replacement): the FIRST occurrence only.
\* An empty pattern matches at position 0.
StrReplace(s, pat, rep) ==
    LET i == IndexFrom(s, pat, 1)
    IN  IF i = 0 THEN s
        ELSE SubSeq(s, 1, i - 1) \o rep \o SubSeq(s, i + Len(pat), Len(s))

RECURSIVE LastIndexOf(_, _, _)
\* The greatest i <= from with s[i] = c, 0 if none.
LastIndexOf(s, c, from) ==
    IF from = 0 THEN 0
    ELSE IF s[from] = c THEN from
    ELSE LastIndexOf(s, c, from - 1)

RECURSIVE Join(_, _)
\* Array.prototype.join(sep) over an array of strings.
Join(parts, sep) ==
    IF Len(parts) = 0 THEN <<>>
    ELSE IF Len(parts) = 1 THEN parts[1]
    ELSE parts[1] \o sep \o Join(Tail(parts), sep)

RECURSIVE Digits(_)
\* Number to decimal text, as the template literal `${Date.now()}` renders it.
Digits(n) ==
    LET d == <<"0", "1", "2", "3", "4", "5", "6", "7", "8", "9">>[(n % 10) + 1]
    IN  IF n < 10 THEN <<d>> ELSE Digits(n \div 10) \o <<d>>

\* ------------------------------------------------------------------- path
\* path.basename(p): the last segment of p.
Basename(p) == SubSeq(p, LastIndexOf(p, "/", Len(p)) + 1, Len(p))

\* path.extname(p): from the last "." of the last segment to the end; empty when
\* there is none or when the only "." is the segment's first character.
Extname(p) ==
    LET b == Basename(p)
        i == LastIndexOf(b, ".", Len(b))
    IN  IF i <= 1 THEN <<>> ELSE SubSeq(b, i, Len(b))

\* path.basename(p, ext): the last segment with a trailing ext removed.
BasenameExt(p, ext) ==
    LET b == Basename(p)
    IN  IF Len(ext) > 0 /\ Len(b) > Len(ext)
           /\ SubSeq(b, Len(b) - Len(ext) + 1, Len(b)) = ext
        THEN SubSeq(b, 1, Len(b) - Len(ext))
        ELSE b

\* path.join(dir, name) for a name without separators.
PathJoin(dir, name) == dir \o <<"/">> \o name

\* const tempDir = path.join(os.tmpdir(), 'whisper-uploads')
tempDir == <<"/", "tmp", "/", "whisper-uploads">>

\* tempFilePath = path.join(tempDir, `${Date.now()}-${mediaFile.name}`)
TempFilePathOf(t, name) == PathJoin(tempDir, Digits(t) \o <<"-">> \o name)

\* outputJsonPath = path.join(tempDir, `${basename(tempFilePath, extname(tempFilePath))}.json`)
OutputJsonPathOf(tfp) == PathJoin(tempDir, BasenameExt(tfp, Extname(tfp)) \o <<".", "json">>)

\* ------------------------------------------------------- the request's inputs
\* Uploaded file names (File.name), chosen by the client.
FileNames ==
    { <<"a", ".", "mp3">>, <<"a", ".", "wav">>, <<"a", ".", "json">>, <<"a">> }

\* What formData.get('mediaFile') is: no such part, a text field, or a file part.
MediaKinds == {"absent", "text", "file"}

\* The uploaded bytes.
Payload == <<"MEDIA-BYTES">>

\* process.env.HUGGING_FACE_TOKEN: undefined (Null) or the secret.
Secret == <<"hf_SECRET">>

TokenValues == {Null, Secret}

\* Texts the engine may leave in the output artifact: two spellings of the same
\* document, and a truncated one.
JsonCompact == <<"{", "\"text\"", ":", "\"hi\"", "}">>

JsonSpaced == <<"{", " ", "\"text\"", ":", " ", "\"hi\"", " ", "}">>

JsonPartial == <<"{", "\"text\"", ":">>

EngineTexts == {JsonCompact, JsonSpaced, JsonPartial}

\* What the engine may have sent to a standard stream.
StdoutTexts == {<<>>, <<"engine-stdout">>}

StderrTexts == {<<>>, <<"engine-stderr">>}

\* What an environment lets happen: the uploads it sends, the platform, and whether
\* file-system calls may fail (io holds the possible values of "the call succeeds").
EnvAlone ==
    [names |-> { <<"a", ".", "mp3">>, <<"a", ".", "json">> },
     kinds |-> MediaKinds,
     forms |-> BOOLEAN,
     tokens |-> TokenValues,
     platforms |-> {"win32", "linux"},
     io |-> BOOLEAN,
     probes |-> BOOLEAN,
     script |-> BOOLEAN,
     diarize |-> BOOLEAN,
     texts |-> EngineTexts,
     codes |-> {0, 1},
     survives |-> BOOLEAN,
     stdout |-> StdoutTexts,
     stderr |-> StderrTexts]

\* A healthy host under concurrent uploads: every file name, no failing system call.
EnvShared ==
    [names |-> { <<"a", ".", "mp3">>, <<"a", ".", "wav">>, <<"a", ".", "json">> },
     kinds |-> {"file"},
     forms |-> {TRUE},
     tokens |-> {Null},
     platforms |-> {"linux"},
     io |-> {TRUE},
     probes |-> {TRUE},
     script |-> {TRUE},
     diarize |-> {FALSE},
     texts |-> {JsonCompact, JsonPartial},
     codes |-> {0, 1},
     survives |-> {TRUE},
     stdout |-> {<<>>},
     stderr |-> {<<"engine-stderr">>}]

\* A healthy host serving one upload whose name holds a space or double quotes.
EnvQuoting ==
    [names |-> { <<"a", ".", "mp3">>,
                 <<"a", " ", "b", ".", "mp3">>,
                 <<"a", DQ, " ", DQ, "b", ".", "mp3">> },
     kinds |-> {"file"},
     forms |-> {TRUE},
     tokens |-> TokenValues,
     platforms |-> {"linux"},
     io |-> {TRUE},
     probes |-> BOOLEAN,
     script |-> {TRUE},
     diarize |-> BOOLEAN,
     texts |-> {JsonCompact, JsonPartial},
     codes |-> {0, 1},
     survives |-> {FALSE},
     stdout |-> {<<>>},
     stderr |-> {<<"engine-stderr">>}]

\* A healthy host serving one plain upload; subprocesses exit or do not.
EnvLive ==
    [names |-> { <<"a", ".", "mp3">> },
     kinds |-> {"absent", "file"},
     forms |-> {TRUE},
     tokens |-> {Null},
     platforms |-> {"linux"},
     io |-> {TRUE},
     probes |-> BOOLEAN,
     script |-> BOOLEAN,
     diarize |-> {FALSE},
     texts |-> {JsonCompact, JsonPartial},
     codes |-> {0, 1},
     survives |-> {FALSE},
     stdout |-> {<<>>},
     stderr |-> {<<>>, <<"engine-stderr">>}]

\* ------------------------------------------------------------------- JSON
NoDoc == <<>>

StringAtoms == {"\"text\"", "\"hi\""}

RECURSIVE StripWs(_)
StripWs(t) ==
    IF t = <<>> THEN <<>>
    ELSE IF Head(t) = " " THEN StripWs(Tail(t))
    ELSE <<Head(t)>> \o StripWs(Tail(t))

\* JSON.parse on the texts of the model: an object with one string member parses
\* to the document <<key, value>>; anything else raises a SyntaxError.
JsonParse(text) ==
    LET t == StripWs(text)
    IN  IF Len(t) = 5 /\ t[1] = "{" /\ t[2] \in StringAtoms /\ t[3] = ":"
           /\ t[4] \in StringAtoms /\ t[5] = "}"
        THEN [ok |-> TRUE, value |-> <<t[2], t[4]>>]
        ELSE [ok |-> FALSE, value |-> NoDoc]

\* -------------------------------------------------------------- the locator
\* const candidates = process.platform === 'win32' ? [...] : ['python3', 'python']
Candidates(plat) ==
    IF plat = "win32"
    THEN << <<"~\\AppData\\Local\\Microsoft\\WindowsApps\\python3.12.exe">>,
            <<"~\\AppData\\Local\\Microsoft\\WindowsApps\\python3.exe">>,
            <<"python">>,
            <<"python3">>,
            <<"~\\AppData\\Local\\Programs\\Python\\Python312\\python.exe">>,
            <<"C:\\Python312\\python.exe">>,
            <<"C:\\Python311\\python.exe">>,
            <<"C:\\Python310\\python.exe">> >>
    ELSE << <<"python3">>, <<"python">> >>

\* ------------------------------------------------------------ the command
scriptPath == <<"cwd", "/", "src", "/", "whisper", "/", "transcribe", ".", "py">>

Quoted(s) == <<DQ>> \o s \o <<DQ>>

\* Mutant of CommandParts: the token is passed whenever it is set.
CommandPartsTokenAlways(pythonPath, tfp, ojp, diarize, hfToken) ==
    << Quoted(pythonPath),
       Quoted(scriptPath),
       <<"--input", " ">> \o Quoted(tfp),
       <<"--output-json", " ">> \o Quoted(ojp) >>
    \o (IF diarize THEN << <<"--diarize">> >> ELSE <<>>)
    \o (IF hfToken # Null /\ hfToken # <<>>
        THEN << <<"--hf-token", " ">> \o Quoted(hfToken) >>
        ELSE <<>>)

\* commandParts, lines 95-111.
CommandParts(pythonPath, tfp, ojp, diarize, hfToken) ==
    << Quoted(pythonPath),
       Quoted(scriptPath),
       <<"--input", " ">> \o Quoted(tfp),
       <<"--output-json", " ">> \o Quoted(ojp) >>
    \o (IF diarize THEN << <<"--diarize">> >> ELSE <<>>)
    \o (IF diarize /\ hfToken # Null /\ hfToken # <<>>
        THEN << <<"--hf-token", " ">> \o Quoted(hfToken) >>
        ELSE <<>>)

\* const command = commandParts.join(' ')
Command(pythonPath, tfp, ojp, diarize, hfToken) ==
    Join(CommandParts(pythonPath, tfp, ojp, diarize, hfToken), <<" ">>)

RECURSIVE Words(_, _, _, _, _, _)
\* The shell's word splitting of s from position i: a double quote opens or closes
\* a quoted stretch and is removed, a space outside quotes ends the word.
Words(s, i, inq, cur, started, acc) ==
    IF i > Len(s) THEN (IF started THEN Append(acc, cur) ELSE acc)
    ELSE IF s[i] = DQ THEN Words(s, i + 1, ~inq, cur, TRUE, acc)
    ELSE IF s[i] = " " /\ ~inq
         THEN (IF started THEN Words(s, i + 1, inq, <<>>, FALSE, Append(acc, cur))
               ELSE Words(s, i + 1, inq, cur, started, acc))
    ELSE Words(s, i + 1, inq, Append(cur, s[i]), TRUE, acc)

\* The argument vector the shell of exec(command) starts the runtime with.
ShellWords(command) == Words(command, 1, FALSE, <<>>, FALSE, <<>>)

\* The value the engine finds for a flag: the word after it, Null when there is none.
ArgAfter(argv, flag) ==
    LET is == {i \in 1..Len(argv) - 1 : argv[i] = <<flag>>}
    IN  IF is = {} THEN Null ELSE argv[(CHOOSE i \in is : \A k \in is : i <= k) + 1]

\* command.replace(hfToken ?? "dummy-token", "[HF_TOKEN_HIDDEN]")
MaskedCommand(command, hfToken) ==
    StrReplace(command,
               IF hfToken = Null THEN <<"dummy-token">> ELSE hfToken,
               <<"[HF_TOKEN_HIDDEN]">>)

\* ----------------------------------------------------------------- errors
NoError ==
    [name |-> "", message |-> Null, stderr |-> Null, stdout |-> Null,
     cmd |-> Null, killed |-> FALSE, code |-> 0]

\* The rejection of execPromise for a child that exited nonzero or was killed on
\* the timeout: Error(`Command failed: ${cmd}\n${stderr}`) with cmd, killed, code
\* and the captured streams attached.
CommandFailed(cmd, so, se, killed, code) ==
    [name |-> "Error",
     message |-> <<"Command failed: ">> \o cmd \o <<"\n">> \o se,
     stderr |-> se, stdout |-> so, cmd |-> cmd, killed |-> killed, code |-> code]

\* The rejection of execPromise when the captured output passes maxBuffer.
MaxBufferExceeded(cmd, so, se) ==
    [name |-> "RangeError",
     message |-> <<"stdout maxBuffer length exceeded">>,
     stderr |-> se, stdout |-> so, cmd |-> cmd, killed |-> TRUE, code |-> 0]

\* An error with a message only: SyntaxError of JSON.parse, a rejected fs call,
\* a TypeError, the locator's Error.
PlainError(name, message) ==
    [NoError EXCEPT !.name = name, !.message = message]

\* a || b on strings: undefined and '' are falsy.
Truthy(s) == s # Null /\ s # <<>>

\* How console.error renders an error object: its message and own properties.
Inspect(e) ==
    <<e.name, ": ">> \o e.message
    \o (IF e.cmd # Null THEN <<" cmd: ">> \o e.cmd ELSE <<>>)
    \o (IF e.stdout # Null THEN <<" stdout: ">> \o e.stdout ELSE <<>>)
    \o (IF e.stderr # Null THEN <<" stderr: ">> \o e.stderr ELSE <<>>)

\* Mutant of ErrorDetails: stdout is preferred to stderr.
ErrorDetailsStdoutFirst(e) ==
    IF Truthy(e.stdout) THEN e.stdout
    ELSE IF Truthy(e.stderr) THEN e.stderr
    ELSE IF Truthy(e.message) THEN e.message
    ELSE <<"Unknown execution error">>

\* execError.stderr || execError.stdout || execError.message || 'Unknown execution error'
ErrorDetails(e) ==
    IF Truthy(e.stderr) THEN e.stderr
    ELSE IF Truthy(e.stdout) THEN e.stdout
    ELSE IF Truthy(e.message) THEN e.message
    ELSE <<"Unknown execution error">>

\* -------------------------------------------------------------- responses
NoResponse == [status |-> 0, error |-> "", details |-> Null, transcription |-> NoDoc]

\* NextResponse.json({ error, details }, { status })
ErrorResponse(status, error, details) ==
    [status |-> status, error |-> error, details |-> details, transcription |-> NoDoc]

\* NextResponse.json({ transcription })
OkResponse(doc) ==
    [status |-> 200, error |-> "", details |-> Null, transcription |-> doc]

\* ------------------------------------------------------------------ state
\* The requests in flight.
Reqs == {"r1", "r2"}

VARIABLES
    now,        \* Date.now()
    platform,   \* process.platform
    dirExists,  \* whether tempDir exists
    files,      \* the files of tempDir: path -> content
    log,        \* the console: the set of lines written
    job,        \* per request: the handler's position and locals
    eng,        \* per request: the engine subprocess of execPromise(command)
    hist        \* per request: what has happened (observation only)

vars == <<now, platform, dirExists, files, log, job, eng, hist>>

InitJob ==
    [pc |-> "start",
     form |-> [kind |-> "absent", name |-> <<>>, diarize |-> FALSE],
     hfToken |-> Null,
     tempFilePath |-> Null,
     outputJsonPath |-> Null,
     cand |-> 0,
     pythonPath |-> Null,
     command |-> Null,
     execError |-> NoError,
     errorDetails |-> Null,
     response |-> NoResponse]

\* state: none, running, exited, killed (ended by the runner's signal), orphan
\* (still running after the runner killed the shell).
InitEng ==
    [state |-> "none", out |-> Null, wrote |-> Null, stdout |-> <<>>, stderr |-> <<>>]

InitHist ==
    [formOk |-> FALSE, inputWrites |-> 0, probes |-> 0, engines |-> 0, mkdirs |-> 0,
     unlinkTried |-> {}, unlinkFailed |-> {},
     cleanups |-> 0,          \* passes through the finally block
     probed |-> <<>>,         \* the candidates probed, in order
     outputText |-> Null,     \* the artifact's content when line 138 went to read it
     exit |-> "none",         \* how execPromise settled: zero, nonzero, timeout, overflow
     fault |-> "none",        \* what else went wrong
     outputRead |-> "none",   \* the readFile of line 138: ok, failed
     partialRead |-> "none"]  \* the readFile of line 150: ok, failed

InitIn(env) ==
    /\ now = 1
    /\ platform \in env.platforms
    /\ dirExists \in BOOLEAN
    /\ files = [q \in {} |-> <<>>]
    /\ log = {}
    /\ job = [r \in Reqs |-> InitJob]
    /\ eng = [r \in Reqs |-> InitEng]
    /\ hist = [r \in Reqs |-> InitHist]

Exists(fs, p) == p \in DOMAIN fs

\* writeFile / the engine's write: create or replace p.
WriteTo(fs, p, text) == [q \in DOMAIN fs \cup {p} |-> IF q = p THEN text ELSE fs[q]]

\* Mutant of Remove: an unlink that reports success and deletes nothing.
RemoveNothing(fs, p) == fs

\* unlink
Remove(fs, p) == [q \in DOMAIN fs \ {p} |-> fs[q]]

\* Mutant of OuterCatch: the error is swallowed and no response is built.
OuterCatchSwallows(j, e) == [j EXCEPT !.pc = "finally"]

\* Mutant of OuterCatch: the failed request goes back to writing its input.
OuterCatchRetries(j, e) == [j EXCEPT !.pc = "write"]

\* The outer catch, lines 157-159.
OuterCatch(j, e) ==
    [j EXCEPT !.response = ErrorResponse(500, "An unexpected error occurred.", e.message),
              !.pc = "finally"]

OuterCatchLog(e) == <<"API Error:">> \o Inspect(e)

\* The inner catch, lines 144-155, up to its await.
InnerCatch(j, e, fs) ==
    LET d == ErrorDetails(e)
    IN  IF Exists(fs, j.outputJsonPath)
        THEN [j EXCEPT !.execError = e, !.errorDetails = d, !.pc = "readPartial"]
        ELSE [j EXCEPT !.execError = e, !.errorDetails = d,
                       !.response = ErrorResponse(500, "Failed to execute transcription script.", d),
                       !.pc = "finally"]

InnerCatchLog(e) == <<"Error executing Python script:">> \o Inspect(e)

\* --------------------------------------------------------------- the clock
\* Time passes.  Only line 77 reads the clock, so only ticks that precede a pending
\* read of it are kept.
Tick ==
    /\ now < MaxNow
    /\ \E r \in Reqs : job[r].pc \in {"start", "write"}
    /\ now' = now + 1
    /\ UNCHANGED <<platform, dirExists, files, log, job, eng, hist>>

\* Mutant of NoMediaFile: the check is missing.
NoMediaFileNever(kind) == FALSE

\* Mutant of NoMediaFile: any value that is not a file counts as missing.
NoMediaFileOrText(kind) == kind # "file"

\* if (!mediaFile), line 57.
NoMediaFile(kind) == kind = "absent"

\* ------------------------------------------------------- POST, lines 52-76
Receive(r, env) ==
    /\ job[r].pc = "start"
    /\ \E formOk \in env.forms, kind \in env.kinds, name \in env.names \cup {<<>>},
          diarize \in env.diarize, token \in env.tokens, mkdirOk \in env.io :
        LET j0 == [job[r] EXCEPT !.form = [kind |-> kind, name |-> name, diarize |-> diarize]]
            j1 == [j0 EXCEPT !.hfToken = token]
            warn == IF diarize /\ ~Truthy(token)
                    THEN {<<"Diarization requested, but HUGGING_FACE_TOKEN environment variable is not set.">>}
                    ELSE {}
            eForm == PlainError("TypeError", <<"Failed to parse body as FormData.">>)
            eMkdir == PlainError("Error", <<"EACCES: permission denied, mkdir">>)
            eText == PlainError("TypeError", <<"mediaFile.arrayBuffer is not a function">>)
        IN  /\ (kind = "file") = (name # <<>>)
            /\ (~formOk) => (kind = "absent" /\ ~diarize /\ token = Null)
            /\ (~formOk \/ NoMediaFile(kind) \/ dirExists) => (mkdirOk = TRUE)
            /\ hist' = [hist EXCEPT ![r].formOk = formOk,
                                    ![r].mkdirs = IF formOk /\ ~NoMediaFile(kind) /\ ~dirExists
                                                  THEN 1 ELSE 0]
            /\ IF ~formOk THEN
                    /\ job' = [job EXCEPT ![r] = OuterCatch(job[r], eForm)]
                    /\ log' = log \cup {OuterCatchLog(eForm)}
                    /\ UNCHANGED dirExists
               ELSE IF NoMediaFile(kind) THEN
                    /\ job' = [job EXCEPT ![r] =
                                 [j0 EXCEPT !.response = ErrorResponse(400, "No media file uploaded", Null),
                                            !.pc = "finally"]]
                    /\ UNCHANGED <<log, dirExists>>
               ELSE IF ~dirExists /\ ~mkdirOk THEN
                    /\ job' = [job EXCEPT ![r] = OuterCatch(j1, eMkdir)]
                    /\ log' = log \cup warn \cup {OuterCatchLog(eMkdir)}
                    /\ UNCHANGED dirExists
               ELSE IF kind = "text" THEN
                    /\ job' = [job EXCEPT ![r] = OuterCatch(j1, eText)]
                    /\ log' = log \cup warn \cup {OuterCatchLog(eText)}
                    /\ dirExists' = TRUE
               ELSE
                    /\ job' = [job EXCEPT ![r] = [j1 EXCEPT !.pc = "write"]]
                    /\ log' = log \cup warn
                    /\ dirExists' = TRUE
    /\ UNCHANGED <<now, platform, files, eng>>

\* ------------------------------------------------------- POST, lines 76-85
\* Mutant of WriteInput: the paths are computed and nothing is written.
WriteInputSkipped(r, env) ==
    /\ job[r].pc = "write"
    /\ \E ok \in env.io, left \in BOOLEAN :
        LET tfp == TempFilePathOf(now, job[r].form.name)
            j1 == [job[r] EXCEPT !.tempFilePath = tfp]
        IN  /\ ok /\ left
            /\ job' = [job EXCEPT ![r] =
                         [j1 EXCEPT !.outputJsonPath = OutputJsonPathOf(tfp),
                                    !.cand = 1, !.pc = "locate"]]
    /\ UNCHANGED <<now, platform, dirExists, eng, files, log, hist>>

WriteInput(r, env) ==
    /\ job[r].pc = "write"
    /\ \E ok \in env.io, left \in BOOLEAN :
        LET tfp == TempFilePathOf(now, job[r].form.name)
            j1 == [job[r] EXCEPT !.tempFilePath = tfp]
            eWrite == PlainError("Error", <<"ENOSPC: no space left on device, write">>)
        IN  /\ ok => left
            /\ hist' = [hist EXCEPT ![r].inputWrites = @ + 1,
                                    ![r].fault = IF ok THEN @ ELSE "writeFailed"]
            /\ IF ok THEN
                    /\ files' = WriteTo(files, tfp, Payload)
                    /\ job' = [job EXCEPT ![r] =
                                 [j1 EXCEPT !.outputJsonPath = OutputJsonPathOf(tfp),
                                            !.cand = 1, !.pc = "locate"]]
                    /\ log' = log \cup {<<"Temporary file saved to: ">> \o tfp}
               ELSE
                    /\ files' = IF left THEN WriteTo(files, tfp, <<>>) ELSE files
                    /\ job' = [job EXCEPT ![r] = OuterCatch(j1, eWrite)]
                    /\ log' = log \cup {OuterCatchLog(eWrite)}
    /\ UNCHANGED <<now, platform, dirExists, eng>>

\* Mutant of NextCandidate: the loop does not advance.
NextCandidateStays(c) == c

\* for (const cmd of candidates), line 34: the index of the candidate after c.
NextCandidate(c) == c + 1

\* ------------------------------------- findPythonExecutable, lines 34-44
\* execPromise(`"${cmd}" --version`) for the candidate at job[r].cand.
ProbeSpawn(r) ==
    /\ job[r].pc = "locate"
    /\ job' = [job EXCEPT ![r].pc = "probing"]
    /\ hist' = [hist EXCEPT ![r].probes = @ + 1,
                            ![r].probed = Append(@, Candidates(platform)[job[r].cand])]
    /\ UNCHANGED <<now, platform, dirExists, files, log, eng>>

\* The probe's exit.  A success returns the candidate and POST runs on through
\* lines 85-120 to the await of the engine; a failure moves to the next candidate
\* or, after the last, throws.
ProbeExit(r, env) ==
    /\ job[r].pc = "probing"
    /\ \E ok \in env.probes, scriptExists \in env.script :
        LET j == job[r]
            cmd == Candidates(platform)[j.cand]
            command == Command(cmd, j.tempFilePath, j.outputJsonPath,
                               j.form.diarize, j.hfToken)
            found == <<"Found Python at: ">> \o cmd
            noTok == IF j.form.diarize /\ ~Truthy(j.hfToken)
                     THEN {<<"Proceeding with diarization request but without HF token.">>}
                     ELSE {}
            eNone == PlainError("Error", <<"Python executable not found.">>)
        IN  /\ (~ok) => (scriptExists = TRUE)
            /\ IF ok /\ scriptExists THEN
                    /\ job' = [job EXCEPT ![r] =
                                 [j EXCEPT !.pythonPath = cmd, !.command = command, !.pc = "exec"]]
                    /\ log' = log \cup {found} \cup noTok
                                  \cup {<<"Executing command: ">> \o MaskedCommand(command, j.hfToken)}
                    /\ eng' = [eng EXCEPT ![r] = [InitEng EXCEPT !.state = "running",
                                                                 !.out = ArgAfter(ShellWords(command), "--output-json")]]
                    /\ hist' = [hist EXCEPT ![r].engines = @ + 1]
               ELSE IF ok THEN
                    /\ job' = [job EXCEPT ![r] =
                                 [j EXCEPT !.pythonPath = cmd,
                                           !.response = ErrorResponse(500, "Transcription script not found on server", Null),
                                           !.pc = "finally"]]
                    /\ log' = log \cup {found, <<"Transcription script not found at: ">> \o scriptPath}
                    /\ hist' = [hist EXCEPT ![r].fault = "scriptMissing"]
                    /\ UNCHANGED eng
               ELSE IF j.cand < Len(Candidates(platform)) THEN
                    /\ job' = [job EXCEPT ![r] = [j EXCEPT !.cand = NextCandidate(@), !.pc = "locate"]]
                    /\ UNCHANGED <<log, eng, hist>>
               ELSE
                    /\ job' = [job EXCEPT ![r] = OuterCatch(j, eNone)]
                    /\ log' = log \cup {<<"Could not find Python executable.">>, OuterCatchLog(eNone)}
                    /\ hist' = [hist EXCEPT ![r].fault = "runtimeNotFound"]
                    /\ UNCHANGED eng
    /\ UNCHANGED <<now, platform, dirExists, files>>

\* -------------------------------------------------------------- the engine
\* The engine writes the file named by --output-json.
EngineWrite(r, env) ==
    /\ eng[r].state \in {"running", "orphan"}
    /\ eng[r].wrote = Null
    /\ \E text \in env.texts :
        /\ files' = WriteTo(files, eng[r].out, text)
        /\ eng' = [eng EXCEPT ![r].wrote = text]
    /\ UNCHANGED <<now, platform, dirExists, log, job, hist>>

\* ------------------------------------------------------ POST, lines 119-135
\* Mutant of AfterExec: text on standard error is taken for a failure.
AfterExecStderrFails(j, so, se, fs) ==
    IF Exists(fs, j.outputJsonPath) /\ ~Truthy(se)
    THEN [j EXCEPT !.pc = "readOutput"]
    ELSE [j EXCEPT !.response = ErrorResponse(500, "Transcription failed: Output file not generated.",
                                              IF Truthy(se) THEN se ELSE so),
                   !.pc = "finally"]

\* Lines 125-135 after execPromise resolved with streams so, se.
AfterExec(j, so, se, fs) ==
    IF Exists(fs, j.outputJsonPath)
    THEN [j EXCEPT !.pc = "readOutput"]
    ELSE [j EXCEPT !.response = ErrorResponse(500, "Transcription failed: Output file not generated.",
                                              IF Truthy(se) THEN se ELSE so),
                   !.pc = "finally"]

AfterExecLog(so, se, fs, ojp) ==
    (IF Truthy(se) THEN {<<"Python script stderr:">> \o se} ELSE {})
    \cup {<<"Python script stdout:">> \o so}
    \cup (IF Exists(fs, ojp) THEN {}
          ELSE {<<"Output JSON file was not created by the script.">>,
                <<"Script stderr:">> \o se})

\* The engine exits by itself and execPromise settles.
EngineExit(r, env) ==
    /\ job[r].pc = "exec"
    /\ eng[r].state = "running"
    /\ \E code \in env.codes, so \in env.stdout, se \in env.stderr :
        LET j == job[r]
            e == CommandFailed(j.command, so, se, FALSE, code)
        IN  /\ eng' = [eng EXCEPT ![r].state = "exited", ![r].stdout = so, ![r].stderr = se]
            /\ hist' = [hist EXCEPT ![r].exit = IF code = 0 THEN "zero" ELSE "nonzero",
                                    ![r].fault = IF code = 0 /\ ~Exists(files, j.outputJsonPath)
                                                 THEN "outputMissing" ELSE @]
            /\ IF code = 0 THEN
                    /\ job' = [job EXCEPT ![r] = AfterExec(j, so, se, files)]
                    /\ log' = log \cup AfterExecLog(so, se, files, j.outputJsonPath)
               ELSE
                    /\ job' = [job EXCEPT ![r] = InnerCatch(j, e, files)]
                    /\ log' = log \cup {InnerCatchLog(e)}
    /\ UNCHANGED <<now, platform, dirExists, files>>

\* The timeout of line 121 passes: the runner signals the child it spawned (the
\* shell) and execPromise rejects.  The engine dies with the shell, or lives on.
ExecTimeout(r, env) ==
    /\ job[r].pc = "exec"
    /\ eng[r].state = "running"
    /\ \E so \in env.stdout, se \in env.stderr, survives \in env.survives :
        LET j == job[r]
            e == CommandFailed(j.command, so, se, TRUE, 0)
        IN  /\ eng' = [eng EXCEPT ![r].state = IF survives THEN "orphan" ELSE "killed",
                                  ![r].stdout = so, ![r].stderr = se]
            /\ hist' = [hist EXCEPT ![r].exit = "timeout"]
            /\ job' = [job EXCEPT ![r] = InnerCatch(j, e, files)]
            /\ log' = log \cup {InnerCatchLog(e)}
    /\ UNCHANGED <<now, platform, dirExists, files>>

\* The captured output passes maxBuffer (line 122): the same kill, another error.
ExecOverflow(r, env) ==
    /\ job[r].pc = "exec"
    /\ eng[r].state = "running"
    /\ \E se \in env.stderr, survives \in env.survives :
        LET j == job[r]
            so == <<"engine-stdout">>
            e == MaxBufferExceeded(j.command, so, se)
        IN  /\ eng' = [eng EXCEPT ![r].state = IF survives THEN "orphan" ELSE "killed",
                                  ![r].stdout = so, ![r].stderr = se]
            /\ hist' = [hist EXCEPT ![r].exit = "overflow"]
            /\ job' = [job EXCEPT ![r] = InnerCatch(j, e, files)]
            /\ log' = log \cup {InnerCatchLog(e)}
    /\ UNCHANGED <<now, platform, dirExists, files>>

\* ------------------------------------------------------ POST, lines 137-142
\* readFile(outputJsonPath) settles; JSON.parse; the 200 response.  A rejected read
\* and a SyntaxError are both thrown inside the inner try.
ReadOutput(r, env) ==
    /\ job[r].pc = "readOutput"
    /\ \E ok \in env.io :
        LET j == job[r]
            readable == ok /\ Exists(files, j.outputJsonPath)
            at == IF Exists(files, j.outputJsonPath) THEN files[j.outputJsonPath] ELSE Null
            parsed == JsonParse(files[j.outputJsonPath])
            eRead == PlainError("Error", <<"EIO: i/o error, read">>)
            eParse == PlainError("SyntaxError", <<"Unexpected end of JSON input">>)
        IN  IF readable /\ parsed.ok THEN
                /\ job' = [job EXCEPT ![r] = [j EXCEPT !.response = OkResponse(parsed.value),
                                                       !.pc = "finally"]]
                /\ hist' = [hist EXCEPT ![r].outputRead = "ok", ![r].outputText = at]
                /\ UNCHANGED log
            ELSE IF readable THEN
                /\ job' = [job EXCEPT ![r] = InnerCatch(j, eParse, files)]
                /\ log' = log \cup {InnerCatchLog(eParse)}
                /\ hist' = [hist EXCEPT ![r].outputRead = "ok", ![r].outputText = at,
                                        ![r].fault = "parseError"]
            ELSE
                /\ job' = [job EXCEPT ![r] = InnerCatch(j, eRead, files)]
                /\ log' = log \cup {InnerCatchLog(eRead)}
                /\ hist' = [hist EXCEPT ![r].outputRead = "failed", ![r].outputText = at,
                                        ![r].fault = "readError"]
    /\ UNCHANGED <<now, platform, dirExists, files, eng>>

\* ------------------------------------------------------ POST, lines 148-154
\* Mutant of WithPartial: a failed read replaces the details.
WithPartialMasks(d, readable, text) ==
    IF readable THEN d \o <<"\nPartial output: ">> \o text
    ELSE <<"EIO: i/o error, read">>

\* Lines 149-152: the details after the attempt to read the artifact.
WithPartial(d, readable, text) ==
    IF readable THEN d \o <<"\nPartial output: ">> \o text ELSE d

\* readFile(outputJsonPath) of the inner catch settles; a rejection is ignored.
ReadPartial(r, env) ==
    /\ job[r].pc = "readPartial"
    /\ \E ok \in env.io :
        LET j == job[r]
            readable == ok /\ Exists(files, j.outputJsonPath)
            d == WithPartial(j.errorDetails, readable,
                             IF readable THEN files[j.outputJsonPath] ELSE <<>>)
        IN  /\ job' = [job EXCEPT ![r] =
                      [j EXCEPT !.errorDetails = d,
                                !.response = ErrorResponse(500, "Failed to execute transcription script.", d),
                                !.pc = "finally"]]
            /\ hist' = [hist EXCEPT ![r].partialRead = IF readable THEN "ok" ELSE "failed"]
    /\ UNCHANGED <<now, platform, dirExists, files, log, eng>>

\* ------------------------------------------------------ POST, lines 160-178
\* Mutant of Unlink: a failed deletion is raised and becomes the response.
UnlinkRaises(r, env, p, what, next, entry) ==
    \E ok \in env.io :
        /\ (p = Null \/ ~Exists(files, p)) => (ok = TRUE)
        /\ IF p # Null /\ Exists(files, p) THEN
                /\ hist' = [hist EXCEPT ![r].unlinkTried = @ \cup {p},
                                        ![r].unlinkFailed = IF ok THEN @ ELSE @ \cup {p},
                                        ![r].cleanups = @ + entry]
                /\ files' = IF ok THEN Remove(files, p) ELSE files
                /\ log' = log \cup
                     {IF ok THEN <<"Cleaned up temporary ", what, " file: ">> \o p
                      ELSE <<"Error cleaning up temporary ", what, " file ">> \o p
                           \o <<": EPERM: operation not permitted, unlink">>}
                /\ job' = [job EXCEPT ![r].pc = next,
                                      ![r].response =
                                          IF ok THEN @
                                          ELSE ErrorResponse(500, "An unexpected error occurred.",
                                                             <<"EPERM: operation not permitted, unlink">>)]
           ELSE /\ hist' = [hist EXCEPT ![r].cleanups = @ + entry]
                /\ job' = [job EXCEPT ![r].pc = next]
                /\ UNCHANGED <<files, log>>

\* One `if (path && existsSync(path)) { try unlink } catch { log }` of the finally block;
\* entry is 1 for the first of the two, where the block is entered.
Unlink(r, env, p, what, next, entry) ==
    \E ok \in env.io :
        /\ (p = Null \/ ~Exists(files, p)) => (ok = TRUE)
        /\ IF p # Null /\ Exists(files, p) THEN
                /\ hist' = [hist EXCEPT ![r].unlinkTried = @ \cup {p},
                                        ![r].unlinkFailed = IF ok THEN @ ELSE @ \cup {p},
                                        ![r].cleanups = @ + entry]
                /\ files' = IF ok THEN Remove(files, p) ELSE files
                /\ log' = log \cup
                     {IF ok THEN <<"Cleaned up temporary ", what, " file: ">> \o p
                      ELSE <<"Error cleaning up temporary ", what, " file ">> \o p
                           \o <<": EPERM: operation not permitted, unlink">>}
           ELSE /\ hist' = [hist EXCEPT ![r].cleanups = @ + entry]
                /\ UNCHANGED <<files, log>>
        /\ job' = [job EXCEPT ![r].pc = next]

CleanupInput(r, env) ==
    /\ job[r].pc = "finally"
    /\ Unlink(r, env, job[r].tempFilePath, "input", "finallyOutput", 1)
    /\ UNCHANGED <<now, platform, dirExists, eng>>

\* After the second unlink the handler returns: the response is sent.
CleanupOutput(r, env) ==
    /\ job[r].pc = "finallyOutput"
    /\ Unlink(r, env, job[r].outputJsonPath, "output", "done", 0)
    /\ UNCHANGED <<now, platform, dirExists, eng>>

\* ------------------------------------------------------------ specification
Step(r, env) ==
    \/ Receive(r, env)
    \/ WriteInput(r, env)
    \/ ProbeSpawn(r)
    \/ ProbeExit(r, env)
    \/ EngineWrite(r, env)
    \/ EngineExit(r, env)
    \/ ExecTimeout(r, env)
    \/ ExecOverflow(r, env)
    \/ ReadOutput(r, env)
    \/ ReadPartial(r, env)
    \/ CleanupInput(r, env)
    \/ CleanupOutput(r, env)

\* One request, handled alone: Date.now() is read once, so the clock stands still.
Init == InitIn(EnvAlone)

Next == Step("r1", EnvAlone)

Spec == Init /\ [][Next]_vars

\* Two requests on a healthy host, their steps and the clock's ticks interleaved.
InitConc == InitIn(EnvShared)

NextConc == Tick \/ \E r \in Reqs : Step(r, EnvShared)

SpecConc == InitConc /\ [][NextConc]_vars

\* One request whose file name holds a space or double quotes.
InitNames == InitIn(EnvQuoting)

NextNames == Step("r1", EnvQuoting)

SpecNames == InitNames /\ [][NextNames]_vars

\* One request under the scheduling the runtime gives it: a step of the handler
\* that is ready is taken, and the timer of line 121 fires while the engine is
\* awaited.  Nothing makes a subprocess exit or write.
InitLive == InitIn(EnvLive)

NextLive == Step("r1", EnvLive)

FairLive ==
    /\ WF_vars(Receive("r1", EnvLive))
    /\ WF_vars(WriteInput("r1", EnvLive))
    /\ WF_vars(ProbeSpawn("r1"))
    /\ WF_vars(ExecTimeout("r1", EnvLive))
    /\ WF_vars(ReadOutput("r1", EnvLive))
    /\ WF_vars(ReadPartial("r1", EnvLive))
    /\ WF_vars(CleanupInput("r1", EnvLive))
    /\ WF_vars(CleanupOutput("r1", EnvLive))

SpecLive == InitLive /\ [][NextLive]_vars /\ FairLive

\* ================================================================= claims
Done(r) == job[r].pc = "done"

\* The request carried a media file.
HasFile(r) == hist[r].formOk /\ job[r].form.kind = "file"

\* The step in which the handler of r returns its response.
Returns(r) == job[r].pc # "done" /\ job'[r].pc = "done"

Absent(fs, p) == p = Null \/ ~Exists(fs, p)

\* ---------------------------------------------------------------------- C1
\* C1 as stated: for every POST with a media file, on every exit path, when the
\* response is returned neither the job's input artifact nor its output artifact
\* exists in the workspace, and at most one input artifact was written and at most
\* one engine (the writer of the output artifact) was started.
C1_AbsentAtReturn ==
    [][\A r \in Reqs :
         (Returns(r) /\ HasFile(r)) =>
             /\ Absent(files', job'[r].tempFilePath)
             /\ Absent(files', job'[r].outputJsonPath)
             /\ hist'[r].inputWrites <= 1
             /\ hist'[r].engines <= 1]_vars

\* C1 amended: when the response is returned, an artifact of the job exists only if
\* its deletion was attempted and failed; at most one input artifact was written
\* and at most one engine was started.
C1_AbsentUnlessUnlinkFailed ==
    [][\A r \in Reqs :
         (Returns(r) /\ HasFile(r)) =>
             /\ Absent(files', job'[r].tempFilePath)
                  \/ job'[r].tempFilePath \in hist'[r].unlinkFailed
             /\ Absent(files', job'[r].outputJsonPath)
                  \/ job'[r].outputJsonPath \in hist'[r].unlinkFailed
             /\ hist'[r].inputWrites <= 1
             /\ hist'[r].engines <= 1]_vars

\* A request that timed out with both artifacts present has returned, both deleted.
C1_Witness ==
    \E r \in Reqs :
        /\ Done(r) /\ HasFile(r)
        /\ hist[r].exit = "timeout"
        /\ job[r].tempFilePath # job[r].outputJsonPath
        /\ hist[r].unlinkTried = {job[r].tempFilePath, job[r].outputJsonPath}
        /\ hist[r].unlinkFailed = {}
        /\ DOMAIN files = {}

\* ---------------------------------------------------------------------- C2
\* C2: the credential token appears in no log line and in no response body, on any
\* exit path of POST.
C2_TokenNeverLeaks ==
    /\ \A line \in log : ~Includes(line, Secret)
    /\ \A r \in Reqs :
         job[r].response.details = Null \/ ~Includes(job[r].response.details, Secret)

\* ---------------------------------------------------------------------- C3
\* C3: two requests whose uploaded file names differ never share an artifact name:
\* the input and output paths of the one are both different from the input and
\* output paths of the other.
C3_NamesNeverCollide ==
    \A r1, r2 \in Reqs :
        (/\ r1 # r2
         /\ job[r1].form.name # job[r2].form.name
         /\ job[r1].outputJsonPath # Null
         /\ job[r2].outputJsonPath # Null)
        => {job[r1].tempFilePath, job[r1].outputJsonPath}
             \cap {job[r2].tempFilePath, job[r2].outputJsonPath} = {}

\* ---------------------------------------------------------------------- C4
\* The error the runner would have raised had the same command, with the same
\* captured streams, exited nonzero by itself.
NonzeroTwin(e) == [e EXCEPT !.killed = FALSE, !.code = 1]

\* C4: a command that exceeds the timeout yields HTTP 500, the response tells the
\* timeout from a normal nonzero exit, and when the response is returned the engine
\* is no longer running (it cannot write the output artifact any more).
C4_TimeoutClassifiedAndChildGone ==
    \A r \in Reqs :
        (Done(r) /\ hist[r].exit = "timeout") =>
            /\ job[r].response.status = 500
            /\ ErrorDetails(job[r].execError) # ErrorDetails(NonzeroTwin(job[r].execError))
            /\ eng[r].state = "killed"

\* ---------------------------------------------------------------------- C5
\* C5: a zero exit whose output artifact exists but does not parse fails with HTTP
\* 500 as a parse failure, not as a failure to execute the engine.
C5_ParseErrorNotExecFailure ==
    \A r \in Reqs :
        (Done(r) /\ hist[r].exit = "zero" /\ hist[r].fault = "parseError") =>
            /\ job[r].response.status = 500
            /\ job[r].response.error # "Failed to execute transcription script."

\* ---------------------------------------------------------------------- C6
\* The engine of r exited zero having written a text that parses.
ZeroExitValidOutput(r) ==
    /\ hist[r].exit = "zero"
    /\ eng[r].wrote # Null
    /\ JsonParse(eng[r].wrote).ok

\* C6 as stated: a command that exits zero and writes valid structured data to the
\* output path yields HTTP 200 whose transcription is that data, whatever it wrote
\* to standard error.
C6_ZeroExitValidYields200 ==
    \A r \in Reqs :
        (Done(r) /\ ZeroExitValidOutput(r)) =>
            job[r].response = OkResponse(JsonParse(eng[r].wrote).value)

\* C6 amended: ... yields HTTP 200 whose transcription is that data, whatever it
\* wrote to standard error, unless the handler's read of the artifact fails, and
\* then it yields HTTP 500.
C6_ZeroExitValidReadYields200 ==
    \A r \in Reqs :
        (Done(r) /\ ZeroExitValidOutput(r)) =>
            IF hist[r].outputRead = "failed"
            THEN job[r].response.status = 500
            ELSE job[r].response = OkResponse(JsonParse(eng[r].wrote).value)

\* A zero exit with text on standard error and a spaced document has returned 200.
C6_Witness ==
    \E r \in Reqs :
        /\ Done(r) /\ ZeroExitValidOutput(r)
        /\ eng[r].wrote = JsonSpaced
        /\ eng[r].stderr # <<>>
        /\ job[r].response.status = 200

\* ---------------------------------------------------------------------- C7
\* The engine of r exited nonzero having written a truncated document.
NonzeroExitPartialOutput(r) ==
    /\ hist[r].exit = "nonzero"
    /\ eng[r].wrote = JsonPartial

DetailsHold(r, text) == text = <<>> \/ Includes(job[r].response.details, text)

\* C7 as stated: a nonzero exit after a partial, invalid output artifact yields HTTP
\* 500 whose details contain the captured stderr and the raw partial content.
C7_DetailsHaveStderrAndPartial ==
    \A r \in Reqs :
        (Done(r) /\ NonzeroExitPartialOutput(r)) =>
            /\ job[r].response.status = 500
            /\ DetailsHold(r, eng[r].stderr)
            /\ DetailsHold(r, JsonPartial)

\* C7 amended: ... yields HTTP 500 whose details contain the captured stderr and,
\* when the handler's read of the partial artifact succeeds, its raw content.
C7_DetailsHaveStderrAndReadPartial ==
    \A r \in Reqs :
        (Done(r) /\ NonzeroExitPartialOutput(r)) =>
            /\ job[r].response.status = 500
            /\ DetailsHold(r, eng[r].stderr)
            /\ hist[r].partialRead \in {"ok", "failed"}
            /\ hist[r].partialRead = "ok" => DetailsHold(r, JsonPartial)

\* A nonzero exit with both streams written and a partial artifact read back.
C7_Witness ==
    \E r \in Reqs :
        /\ Done(r) /\ NonzeroExitPartialOutput(r)
        /\ eng[r].stderr # <<>> /\ eng[r].stdout # <<>>
        /\ hist[r].partialRead = "ok"
        /\ Includes(job[r].response.details, JsonPartial)

C9_RuntimeNotFoundIs500NoEngine ==
    \A r \in Reqs :
        hist[r].fault = "runtimeNotFound" =>
            /\ job[r].response.status = 500
            /\ job[r].response.details = <<"Python executable not found.">>
            /\ hist[r].probes = Len(Candidates(platform))
            /\ hist[r].engines = 0 /\ eng[r].state = "none"
            /\ job[r].command = Null

\* On win32 all eight probes failed and the request has returned.
C9_Witness ==
    \E r \in Reqs :
        /\ Done(r) /\ hist[r].fault = "runtimeNotFound"
        /\ platform = "win32" /\ hist[r].probes = 8
        /\ job[r].response.status = 500

\* --------------------------------------------------------------------- C10
\* C10: the command the engine is started with carries --hf-token exactly when diarization is requested and a
\* token is set, and --diarize exactly when diarization is requested; a request
\* for diarization without a token still starts the engine once a runtime and the
\* worker script are found.
C10_TokenArgIffDiarizeAndToken ==
    \A r \in Reqs :
        LET j == job[r] IN
        /\ j.pc = "exec" =>
              /\ Includes(j.command, <<"--hf-token">>) <=> (j.form.diarize /\ Truthy(j.hfToken))
              /\ Includes(j.command, Secret) <=> (j.form.diarize /\ Truthy(j.hfToken))
              /\ Includes(j.command, <<"--diarize">>) <=> j.form.diarize
        /\ (j.form.diarize /\ ~Truthy(j.hfToken) /\ j.pythonPath # Null
              /\ hist[r].fault # "scriptMissing") =>
              /\ hist[r].engines = 1
              /\ j.command # Null

\* Diarization without a token: the engine runs on a command with --diarize only.
C10_Witness ==
    \E r \in Reqs :
        /\ job[r].form.diarize /\ job[r].hfToken = Null
        /\ eng[r].state = "running"
        /\ Includes(job[r].command, <<"--diarize">>)
        /\ ~Includes(job[r].command, <<"--hf-token">>)

\* --------------------------------------------------------------------- C11
\* The argument list the command of r is meant to be.
IntendedArgv(r) ==
    LET j == job[r] IN
    << j.pythonPath, scriptPath, <<"--input">>, j.tempFilePath,
       <<"--output-json">>, j.outputJsonPath >>
    \o (IF j.form.diarize THEN << <<"--diarize">> >> ELSE <<>>)
    \o (IF j.form.diarize /\ Truthy(j.hfToken) THEN << <<"--hf-token">>, j.hfToken >> ELSE <<>>)

\* C11: for every uploaded file name, also one with spaces or double quotes, the
\* shell reads the command as exactly the intended argument list.
C11_CommandIsIntendedArgv ==
    \A r \in Reqs :
        job[r].pc = "exec" => ShellWords(job[r].command) = IntendedArgv(r)

\* --------------------------------------------------------------------- C12
\* The form of r parsed and holds no media file part.
PartMissing(r) == hist[r].formOk /\ job[r].form.kind = "absent"

\* The engine of r exited zero, the output artifact existed then, and its text parses.
ExitZeroExistsParses(r) ==
    /\ hist[r].exit = "zero"
    /\ hist[r].fault # "outputMissing"
    /\ hist[r].outputText # Null
    /\ JsonParse(hist[r].outputText).ok

\* A response, once produced, is the response; a returned request has one.
OneResponse(r) ==
    /\ job[r].response # NoResponse => job'[r].response = job[r].response
    /\ Done(r)' => job'[r].response.status \in {200, 400, 500}

InCleanup(r) == job[r].pc \in {"finally", "finallyOutput"}

\* C13: cleanup runs exactly once on every exit path of a request that created
\* an input artifact, and a failed deletion in cleanup is only logged: the
\* response is the one produced before cleanup, whether the deletions succeed or fail.
C13_CleanupOnceAndOnlyLogs ==
    [][\A r \in Reqs :
        /\ hist'[r].cleanups <= 1
        /\ (Done(r)' /\ hist'[r].inputWrites >= 1) => hist'[r].cleanups = 1
        /\ InCleanup(r) =>
            /\ job'[r].response = job[r].response
            /\ hist'[r].unlinkFailed # hist[r].unlinkFailed => log' # log
      ]_vars

\* A request answered 200 although a deletion of its cleanup failed.
C13_Witness ==
    \E r \in Reqs :
        /\ Done(r)
        /\ hist[r].inputWrites >= 1
        /\ hist[r].cleanups = 1
        /\ hist[r].unlinkFailed # {}
        /\ job[r].response.status = 200

\* --------------------------------------------------------------------- C14
\* The handler of q has started and not yet returned.
InFlight(q) == job[q].pc \notin {"start", "done"}

\* The artifacts of an in-flight job: the files at its input and output paths.
Artifacts(q) ==
    IF InFlight(q)
    THEN {p \in {job[q].tempFilePath, job[q].outputJsonPath} : p # Null /\ Exists(files, p)}
    ELSE {}

\* The path the engine of r writes in this step.
EngineTouched(r) == IF eng'[r].wrote # eng[r].wrote THEN {eng[r].out} ELSE {}

\* The path the handler of r reads in this step.
ReadTouched(r) ==
    IF job[r].pc \in {"readOutput", "readPartial"} /\ job'[r].pc # job[r].pc
    THEN {job[r].outputJsonPath} ELSE {}

\* The path the cleanup of r deletes in this step.
CleanupTouched(r) ==
    IF InCleanup(r) /\ job'[r].pc # job[r].pc THEN DOMAIN files \ DOMAIN files' ELSE {}

\* C14: with several requests handled concurrently over the shared workspace
\* directory, no job's engine output or cleanup overwrites, reads or deletes an
\* artifact belonging to another in-flight job, in every interleaving.
C14_JobsNeverInterfere ==
    [][\A r \in Reqs : \A q \in Reqs \ {r} :
        (EngineTouched(r) \cup ReadTouched(r) \cup CleanupTouched(r)) \cap Artifacts(q) = {}
      ]_vars

\* --------------------------------------------------------------------- C15
\* Build after locate, run after build, recover after run, cleanup after recover,
\* response after cleanup.
BuildToResponseInOrder(r) ==
    /\ job[r].command # Null => job[r].pythonPath # Null
    /\ hist[r].engines >= 1 => job[r].command # Null
    /\ (hist[r].outputRead # "none" \/ hist[r].partialRead # "none") => hist[r].engines >= 1
    /\ job[r].pc \in {"readOutput", "readPartial"} => hist[r].cleanups = 0
    /\ hist[r].cleanups >= 1 => job[r].pc \in {"finallyOutput", "done"}
    /\ Done(r) => hist[r].cleanups = 1

\* C15 as stated: the steps of a request happen in the order locate runtime, write
\* input artifact, build, run, recover, cleanup, response; the input artifact is
\* written only after the locator returned a runtime, so a request that ends in
\* RuntimeNotFound has never written an input artifact.
C15_LocateThenWrite ==
    \A r \in Reqs :
        /\ hist[r].inputWrites >= 1 => job[r].pythonPath # Null
        /\ hist[r].fault = "runtimeNotFound" => hist[r].inputWrites = 0
        /\ BuildToResponseInOrder(r)

\* C15 amended: the steps of a request happen in the order write input artifact,
\* locate runtime, build, run, recover, cleanup, response; the runtime is probed
\* only after the input artifact was written, so a request that ends in
\* RuntimeNotFound has written its input artifact, whose deletion cleanup attempts.
C15_WriteThenLocate ==
    \A r \in Reqs :
        /\ hist[r].probes >= 1 => hist[r].inputWrites = 1
        /\ job[r].pythonPath # Null => hist[r].inputWrites = 1
        /\ hist[r].fault = "runtimeNotFound" => hist[r].inputWrites = 1
        /\ (Done(r) /\ hist[r].fault = "runtimeNotFound") =>
               job[r].tempFilePath \in hist[r].unlinkTried
        /\ BuildToResponseInOrder(r)

\* A returned request that found no runtime after writing its input artifact.
C15_Witness ==
    \E r \in Reqs :
        /\ Done(r)
        /\ hist[r].fault = "runtimeNotFound"
        /\ hist[r].inputWrites = 1
        /\ job[r].tempFilePath \in hist[r].unlinkTried

\* --------------------------------------------------------------------- C16
\* The probes of r so far are the first candidates of the platform's list, in
\* list order and once each.
ProbedInListOrder(r) ==
    /\ Len(hist[r].probed) <= Len(Candidates(platform))
    /\ \A i \in 1..Len(hist[r].probed) : hist[r].probed[i] = Candidates(platform)[i]
    /\ hist[r].probes = Len(hist[r].probed)

\* C16: findPythonExecutable probes the platform's candidates strictly in list
\* order, one at a time, returns the first candidate whose probe succeeds, probes
\* no candidate after that one, and fails with RuntimeNotFound only after every
\* candidate has been probed once and failed.
C16_ProbesInOrderFirstSuccessWins ==
    [][\A r \in Reqs :
        /\ ProbedInListOrder(r)'
        /\ job'[r].pythonPath # Null =>
               job'[r].pythonPath = hist'[r].probed[Len(hist'[r].probed)]
        /\ job[r].pythonPath # Null => hist'[r].probed = hist[r].probed
        /\ hist'[r].fault = "runtimeNotFound" =>
               /\ hist'[r].probed = Candidates(platform)
               /\ job'[r].pythonPath = Null
      ]_vars

\* A runtime found at the second or a later candidate, after the earlier ones failed.
C16_Witness ==
    \E r \in Reqs :
        /\ Done(r)
        /\ job[r].pythonPath # Null
        /\ Len(hist[r].probed) >= 2
        /\ job[r].pythonPath = Candidates(platform)[Len(hist[r].probed)]

\* --------------------------------------------------------------------- C17
\* C17: every request eventually returns a response even when a spawned
\* subprocess never exits on its own: no step, the runtime version probes
\* included, suspends the request forever.
C17_EveryRequestReturns ==
    \A r \in Reqs : InFlight(r) ~> Done(r)

\* --------------------------------------------------------------------- C18
\* The input artifact write or the engine command of r failed.
WriteOrEngineFailed(r) ==
    \/ hist[r].fault = "writeFailed"
    \/ hist[r].exit \in {"nonzero", "timeout", "overflow"}

\* C18: nothing is retried within a request: the input artifact write and the
\* engine command are each attempted at most once, and a write error, nonzero
\* exit, timeout or overflow ends the request with a failure response.
C18_NothingRetried ==
    \A r \in Reqs :
        /\ hist[r].inputWrites <= 1
        /\ hist[r].engines <= 1
        /\ (Done(r) /\ WriteOrEngineFailed(r)) =>
            /\ job[r].response.status = 500
            /\ job[r].response.error # ""

\* A request whose only write failed and that returned a failure.
C18_Witness ==
    \E r \in Reqs :
        /\ Done(r)
        /\ hist[r].fault = "writeFailed"
        /\ hist[r].inputWrites = 1
        /\ hist[r].engines = 0
        /\ job[r].response.status = 500

\* --------------------------------------------------------------------- C19
\* The engine of r ended in the Failure path.
EngineFailed(r) == hist[r].exit \in {"nonzero", "timeout", "overflow"}

\* The originally captured stream or message of the failed command of r.
Captured(r) ==
    IF Truthy(eng[r].stderr) THEN eng[r].stderr
    ELSE IF Truthy(eng[r].stdout) THEN eng[r].stdout
    ELSE job[r].execError.message

StartsWith(d, pre) == Len(d) >= Len(pre) /\ SubSeq(d, 1, Len(pre)) = pre

\* C19: in the Failure path (nonzero exit, timeout or overflow) the attempt to
\* read the output artifact never changes the outcome: with the artifact absent,
\* readable or unreadable the response is HTTP 500 with error 'Failed to execute
\* transcription script.' and details that start with the captured stream or message.
C19_ReadNeverMasksFailure ==
    \A r \in Reqs :
        (Done(r) /\ EngineFailed(r)) =>
            /\ job[r].response.status = 500
            /\ job[r].response.error = "Failed to execute transcription script."
            /\ StartsWith(job[r].response.details, Captured(r))
            /\ hist[r].partialRead # "ok" => job[r].response.details = Captured(r)

\* A failed engine whose artifact was present and could not be read.
C19_Witness ==
    \E r \in Reqs :
        /\ Done(r)
        /\ EngineFailed(r)
        /\ hist[r].partialRead = "failed"
        /\ job[r].response.details = Captured(r)

\* --------------------------------------------------------------------- C20
\* C20: for every uploaded file name, also one that ends in .json, the derived
\* output artifact path differs from the input artifact path, so the existence
\* check and the read of the output never see the uploaded payload.
C20_OutputPathIsNotInputPath ==
    \A r \in Reqs :
        job[r].outputJsonPath # Null => job[r].outputJsonPath # job[r].tempFilePath

====
